---- MODULE Spec2Model ----
(***************************************************************************)
(* Model of gpt2giga.py: the request translator (transform_input_data),    *)
(* the response translator (remove_none, process_gigachat_response) and    *)
(* the per-connection handler (ProxyHandler) under ThreadingHTTPServer.    *)
(*                                                                         *)
(* Python values are modelled as follows.                                  *)
(*   dict        a function whose DOMAIN is the set of keys present        *)
(*   None / x    as a dict value: the tuple <<>> / <<x>>                   *)
(*   str         a sequence of one-character strings                       *)
(*   JSON value  of a message content or of function arguments: a record   *)
(*               [t, v] with t in {"null","str","list","dict"} and v a     *)
(*               sequence of strings (see Null, Str, List, Dict)           *)
(***************************************************************************)
EXTENDS Integers, Sequences, FiniteSets, TLC

VARIABLES
    data,        \* translator run: the inbound request dict
    chat,        \* translator run: result of transform_input_data
    giga_resp,   \* translator run: the backend ChatCompletion
    result,      \* translator run: result of process_gigachat_response
    tpc,         \* translator run: position
    serving,     \* httpd.serve_forever() is running
    config,      \* ProxyHandler.verbose / ProxyHandler.giga (class attributes)
    pc,          \* per connection: position of the handler thread
    req,         \* per connection: method, path, body
    inst,        \* per connection: self.giga / self.verbose
    json_body,   \* per connection: decoded body (after stream is popped)
    stream,      \* per connection: the popped stream flag
    model,       \* per connection: gpt_model returned by transform_input_data
    backend,     \* per connection: outcome of giga.chat
    resp,        \* per connection: result of send_to_gigachat
    failed,      \* per connection: step at which an exception was raised
    calls,       \* per connection: number of giga.chat invocations
    wire,        \* per connection: what has been written to the socket
    sent         \* per connection: the stream chunk that was written

tvars == <<data, chat, giga_resp, result, tpc>>
cvars == <<pc, req, inst, json_body, stream, model, backend, resp, failed,
           calls, wire, sent>>
hvars == <<serving, config, cvars>>
vars == <<data, chat, giga_resp, result, tpc, serving, config, pc, req, inst,
          json_body, stream, model, backend, resp, failed, calls, wire, sent>>

(***************************************************************************)
(* Bounds.                                                                 *)
(***************************************************************************)
MaxMsgs == 2
MaxTools == 2
MaxChoices == 2
NumConns == 2

Conns == 1..NumConns

(***************************************************************************)
(* Python values.                                                          *)
(***************************************************************************)
None == <<>>
Some(x) == <<x>>
EmptyDict == [k \in {} |-> None]

Pop(d, k) == [x \in DOMAIN d \ {k} |-> d[x]]
Get(d, k, default) == IF k \in DOMAIN d THEN d[k] ELSE default
Put(d, k, val) == [x \in DOMAIN d \cup {k} |-> IF x = k THEN val ELSE d[x]]

Null == [t |-> "null", v |-> <<>>]
Str(s) == [t |-> "str", v |-> <<s>>]
List(ss) == [t |-> "list", v |-> ss]
Dict(kvs) == [t |-> "dict", v |-> kvs]

RECURSIVE Escape(_)
Escape(s) ==
    IF s = <<>> THEN <<>>
    ELSE (IF Head(s) \in {"\"", "\\"} THEN <<"\\", Head(s)>> ELSE <<Head(s)>>)
         \o Escape(Tail(s))

Quote(s) == <<"\"">> \o Escape(s) \o <<"\"">>

RECURSIVE JoinList(_)
JoinList(ss) ==
    IF ss = <<>> THEN <<>>
    ELSE Quote(Head(ss))
         \o (IF Tail(ss) = <<>> THEN <<>> ELSE <<",", " ">> \o JoinList(Tail(ss)))

RECURSIVE JoinDict(_)
JoinDict(kvs) ==
    IF Len(kvs) < 2 THEN <<>>
    ELSE Quote(kvs[1]) \o <<":", " ">> \o Quote(kvs[2])
         \o (IF Len(kvs) = 2 THEN <<>>
             ELSE <<",", " ">> \o JoinDict(SubSeq(kvs, 3, Len(kvs))))

\* json.dumps(val, ensure_ascii=False)
JsonDumps(val) ==
    CASE val.t = "null" -> <<"n", "u", "l", "l">>
      [] val.t = "str"  -> Quote(val.v[1])
      [] val.t = "list" -> <<"[">> \o JoinList(val.v) \o <<"]">>
      [] val.t = "dict" -> <<"{">> \o JoinDict(val.v) \o <<"}">>

(***************************************************************************)
(* transform_input_data                                                    *)
(***************************************************************************)
Failure == [ok |-> FALSE, data |-> EmptyDict, gpt_model |-> None]

\* TransformMessage without the final null check (lines 77-78 dropped)
TransformMessage_KeepNull(i, message) ==
    LET m1 == Pop(message, "name")
        m2 == IF m1["role"] = "system" /\ i > 0
              THEN Put(m1, "role", "user") ELSE m1
    IN  IF m2["role"] = "tool"
        THEN Put(Put(m2, "role", "function"), "content",
                 Str(JsonDumps(Get(m2, "content", Str(<<>>)))))
        ELSE m2

\* TransformMessage demoting a system message at every index (i >= 0)
TransformMessage_DemoteFirst(i, message) ==
    LET m1 == Pop(message, "name")
        m2 == IF m1["role"] = "system" /\ i >= 0
              THEN Put(m1, "role", "user") ELSE m1
        m3 == IF m2["role"] = "tool"
              THEN Put(Put(m2, "role", "function"), "content",
                       Str(JsonDumps(Get(m2, "content", Str(<<>>)))))
              ELSE m2
    IN  IF m3["content"] = Null THEN Put(m3, "content", Str(<<>>)) ELSE m3

\* TransformMessage passing a string tool content through without json.dumps
TransformMessage_RawString(i, message) ==
    LET m1 == Pop(message, "name")
        m2 == IF m1["role"] = "system" /\ i > 0
              THEN Put(m1, "role", "user") ELSE m1
        c  == Get(m2, "content", Str(<<>>))
        m3 == IF m2["role"] = "tool"
              THEN Put(Put(m2, "role", "function"), "content",
                       IF c.t = "str" THEN c ELSE Str(JsonDumps(c)))
              ELSE m2
    IN  IF m3["content"] = Null THEN Put(m3, "content", Str(<<>>)) ELSE m3

\* body of the for loop, lines 70-78; i is the 0-based index of enumerate
TransformMessage(i, message) ==
    LET m1 == Pop(message, "name")
        m2 == IF m1["role"] = "system" /\ i > 0
              THEN Put(m1, "role", "user") ELSE m1
        m3 == IF m2["role"] = "tool"
              THEN Put(Put(m2, "role", "function"), "content",
                       Str(JsonDumps(Get(m2, "content", Str(<<>>)))))
              ELSE m2
    IN  IF m3["content"] = Null THEN Put(m3, "content", Str(<<>>)) ELSE m3

\* message["role"] or message["content"] raises KeyError
MessageRaises(message) ==
    \/ "role" \notin DOMAIN message
    \/ "content" \notin DOMAIN message /\ message["role"] # "tool"

\* TransformTemperature adding top_p for temperature 0 and keeping temperature too
TransformTemperature_KeepZero(d, temperature) ==
    IF temperature = Some(0)
    THEN Put(Put(d, "top_p", Some(0)), "temperature", temperature)
    ELSE IF temperature # None /\ temperature[1] > 0
         THEN Put(d, "temperature", temperature)
         ELSE d

\* lines 58-62, after the pop
TransformTemperature(d, temperature) ==
    IF temperature = Some(0) THEN Put(d, "top_p", Some(0))
    ELSE IF temperature # None /\ temperature[1] > 0
         THEN Put(d, "temperature", temperature)
         ELSE d

\* data.get("tools") is truthy
HasTools(d) ==
    LET tools == Get(d, "tools", None)
    IN  tools # None /\ tools[1] # <<>>

\* TransformTools without the type filter
TransformTools_NoFilter(d) ==
    IF "functions" \notin DOMAIN d /\ HasTools(d)
    THEN LET fs == d["tools"][1]
         IN  Put(d, "functions", Some([j \in 1..Len(fs) |-> fs[j]["function"]]))
    ELSE d

\* lines 64-67
TransformTools(d) ==
    IF "functions" \notin DOMAIN d /\ HasTools(d)
    THEN LET fs == SelectSeq(d["tools"][1], LAMBDA tool : tool["type"] = "function")
         IN  Put(d, "functions", Some([j \in 1..Len(fs) |-> fs[j]["function"]]))
    ELSE d

transform_input_data(d0) ==
    LET gpt_model == Get(d0, "model", None)
        d1 == Pop(d0, "model")
        temperature == Get(d1, "temperature", None)
        d2 == TransformTemperature(Pop(d1, "temperature"), temperature)
        d3 == TransformTools(d2)
    IN  IF "messages" \notin DOMAIN d3 \/ d3["messages"] = None THEN Failure
        ELSE LET msgs == d3["messages"][1]
             IN  IF \E i \in 1..Len(msgs) : MessageRaises(msgs[i]) THEN Failure
                 ELSE [ok |-> TRUE,
                       data |-> Put(d3, "messages",
                                    Some([i \in 1..Len(msgs) |->
                                              TransformMessage(i - 1, msgs[i])])),
                       gpt_model |-> gpt_model]

(***************************************************************************)
(* remove_none and process_gigachat_response.  Every value of a response   *)
(* dict is None or Some(x); the keys in DictKeys hold dicts.               *)
(***************************************************************************)
DictKeys == {"message", "function_call"}

RECURSIVE remove_none(_)
remove_none(obj) ==
    [k \in {x \in DOMAIN obj : obj[x] # None} |->
         IF k \in DictKeys THEN Some(remove_none(obj[k][1])) ELSE obj[k]]

\* the list branch of remove_none, applied to giga_dict["choices"]
remove_none_list(objs) == [i \in 1..Len(objs) |-> remove_none(objs[i])]

\* choice["message"].get("function_call") is truthy
HasFunctionCall(message) ==
    "function_call" \in DOMAIN message
    /\ message["function_call"] # None
    /\ DOMAIN message["function_call"][1] # {}

\* a subscript of lines 100-108 raises KeyError
ChoiceRaises(choice) ==
    \/ "message" \notin DOMAIN choice
    \/ "role" \notin DOMAIN choice["message"][1]
    \/ LET message == choice["message"][1]
       IN  /\ message["role"] = Some("assistant")
           /\ HasFunctionCall(message)
           /\ {"name", "arguments"} \ DOMAIN message["function_call"][1] # {}

\* ProcessFunctionCall leaving functions_state_id in the message
ProcessFunctionCall_KeepStateId(message) ==
    LET arguments == Str(JsonDumps(message["function_call"][1]["arguments"][1]))
        m1 == Put(message, "function_call",
                  Some(("name" :> message["function_call"][1]["name"])
                       @@ ("arguments" :> Some(arguments))))
        m2 == IF Get(m1, "content", None) = Some(Str(<<>>))
              THEN Put(m1, "content", None) ELSE m1
    IN  Put(m2, "refusal", None)

\* lines 102-114
ProcessFunctionCall(message) ==
    LET arguments == Str(JsonDumps(message["function_call"][1]["arguments"][1]))
        m1 == Put(message, "function_call",
                  Some(("name" :> message["function_call"][1]["name"])
                       @@ ("arguments" :> Some(arguments))))
        m2 == IF Get(m1, "content", None) = Some(Str(<<>>))
              THEN Put(m1, "content", None) ELSE m1
        m3 == Pop(m2, "functions_state_id")
    IN  Put(m3, "refusal", None)

\* body of the for loop, lines 98-114
ProcessChoice(choice) ==
    LET c1 == Put(Put(choice, "index", Some(0)), "logprobs", None)
        m1 == Put(c1["message"][1], "refusal", None)
        m2 == IF m1["role"] = Some("assistant") /\ HasFunctionCall(m1)
              THEN ProcessFunctionCall(m1) ELSE m1
    IN  Put(c1, "message", Some(m2))

RespFailure == [ok |-> FALSE, value |-> EmptyDict]

process_gigachat_response(giga, gpt_model) ==
    LET choices == remove_none_list(giga["choices"])
    IN  IF \E i \in 1..Len(choices) : ChoiceRaises(choices[i]) THEN RespFailure
        ELSE [ok |-> TRUE,
              value |-> ("id" :> Some("chatcmpl-uuid"))
                        @@ ("object" :> Some("chat.completion"))
                        @@ ("created" :> Some("now"))
                        @@ ("model" :> gpt_model)
                        @@ ("choices" :> Some([i \in 1..Len(choices) |->
                                                   ProcessChoice(choices[i])]))
                        @@ ("usage" :> Some("placeholder"))
                        @@ ("system_fingerprint" :> Some("fp_uuid"))]

(***************************************************************************)
(* Inputs of the translators.                                              *)
(***************************************************************************)
SeqsUpTo(S, n) == UNION {[1..k -> S] : k \in 0..n}

Roles == {"system", "user", "assistant", "tool"}
Contents == {Null, Str(<<>>), Str(<<"a", "\"">>), List(<<<<"a">>>>)}

MessageSet ==
    {("role" :> r) @@ c @@ n :
        r \in Roles,
        c \in {EmptyDict} \cup {("content" :> val) : val \in Contents},
        n \in {EmptyDict, ("name" :> <<"n">>)}}

ToolSet ==
    {("type" :> "function") @@ ("function" :> "f1"),
     ("type" :> "function") @@ ("function" :> "f2"),
     ("type" :> "retrieval") @@ ("function" :> "g")}

UserHi == ("role" :> "user") @@ ("content" :> Str(<<"h", "i">>))
SystemNull == ("role" :> "system") @@ ("content" :> Null)
ToolResult == ("role" :> "tool") @@ ("content" :> List(<<<<"a">>>>))

\* requests that vary the messages
MessageRequests ==
    {("model" :> Some("gpt-x")) @@ ("messages" :> Some(ms)) :
        ms \in SeqsUpTo(MessageSet, MaxMsgs)}

\* requests that vary the other keys
ParamRequests ==
    {m @@ t @@ p @@ tl @@ f @@ ms :
        m \in {EmptyDict, ("model" :> Some("gpt-x"))},
        t \in {EmptyDict} \cup {("temperature" :> x) : x \in {None, Some(0), Some(1), Some(-1)}},
        p \in {EmptyDict, ("top_p" :> Some(1))},
        tl \in {EmptyDict, ("tools" :> None)}
               \cup {("tools" :> Some(ts)) : ts \in SeqsUpTo(ToolSet, MaxTools)},
        f \in {EmptyDict, ("functions" :> None), ("functions" :> Some(<<"f0">>))},
        ms \in {EmptyDict, ("messages" :> Some(<<UserHi>>)),
                ("messages" :> Some(<<SystemNull, SystemNull>>))}}

Requests == MessageRequests \cup ParamRequests

FunctionCalls ==
    {None,
     Some(("name" :> Some("f1")) @@ ("arguments" :> None)),
     Some(("name" :> Some("f1")) @@ ("arguments" :> Some(Dict(<<<<"k">>, <<"v", "\"">>>>))))}

BackendMessages ==
    {("role" :> Some(r)) @@ ("content" :> Some(Str(c))) @@ ("function_call" :> fc)
     @@ ("functions_state_id" :> sid) :
        r \in {"assistant", "user"}, c \in {<<>>, <<"o", "k">>},
        fc \in FunctionCalls, sid \in {None, Some("sid")}}

BackendChoices(i) ==
    {("message" :> Some(m)) @@ ("index" :> Some(i - 1)) @@ ("finish_reason" :> fr) :
        m \in BackendMessages, fr \in {None, Some("stop")}}

BackendResponses ==
    UNION {{[choices |-> cs] :
              cs \in {s \in [1..k -> BackendChoices(1) \cup BackendChoices(k)] :
                         \A i \in 1..k : s[i] \in BackendChoices(i)}} :
           k \in 0..MaxChoices}

(***************************************************************************)
(* Translator runs: one application of each pure function to one input.    *)
(***************************************************************************)
HandlerIdle ==
    /\ serving = FALSE
    /\ config = [verbose |-> FALSE, giga |-> None]
    /\ pc = [c \in Conns |-> "idle"]
    /\ req = [c \in Conns |-> [method |-> "", path |-> "", body |-> None]]
    /\ inst = [c \in Conns |-> [verbose |-> FALSE, giga |-> None]]
    /\ json_body = [c \in Conns |-> EmptyDict]
    /\ stream = [c \in Conns |-> FALSE]
    /\ model = [c \in Conns |-> None]
    /\ backend = [c \in Conns |-> None]
    /\ resp = [c \in Conns |-> EmptyDict]
    /\ failed = [c \in Conns |-> ""]
    /\ calls = [c \in Conns |-> 0]
    /\ wire = [c \in Conns |-> <<>>]
    /\ sent = [c \in Conns |-> None]

TranslatorIdle ==
    /\ tpc = "idle"
    /\ data = EmptyDict
    /\ chat = Failure
    /\ giga_resp = [choices |-> <<>>]
    /\ result = RespFailure

InitRequest ==
    /\ HandlerIdle
    /\ tpc = "start"
    /\ data \in Requests
    /\ chat = Failure
    /\ giga_resp = [choices |-> <<>>]
    /\ result = RespFailure

TransformInputData ==
    /\ tpc = "start"
    /\ chat' = transform_input_data(data)
    /\ tpc' = "translated"
    /\ UNCHANGED <<data, giga_resp, result, hvars>>

SpecRequest == InitRequest /\ [][TransformInputData]_vars

InitResponse ==
    /\ HandlerIdle
    /\ tpc = "start"
    /\ data = EmptyDict
    /\ chat = Failure
    /\ giga_resp \in BackendResponses
    /\ result = RespFailure

ProcessGigachatResponse ==
    /\ tpc = "start"
    /\ result' = process_gigachat_response(giga_resp, Some("gpt-x"))
    /\ tpc' = "processed"
    /\ UNCHANGED <<data, chat, giga_resp, hvars>>

SpecResponse == InitResponse /\ [][ProcessGigachatResponse]_vars

(***************************************************************************)
(* Properties of transform_input_data (checked under SpecRequest).         *)
(***************************************************************************)
Translated == tpc = "translated" /\ chat.ok
InMsgs == data["messages"][1]
OutMsgs == chat.data["messages"][1]
NullContent(m) == "content" \in DOMAIN m /\ m["content"] = Null

\* C4 as stated: every inbound message whose content is null, whatever its
\* role, is sent to the backend with content "".
C4_NullContentAnyRole ==
    Translated =>
        \A i \in 1..Len(InMsgs) :
            NullContent(InMsgs[i]) => OutMsgs[i]["content"] = Str(<<>>)

\* C4 amended: an inbound message whose content is null is sent with content
\* "" when its role is system, user or assistant; a tool message with null
\* content is sent with the JSON encoding of null, the string "null".
C4_NullContent ==
    Translated =>
        \A i \in 1..Len(InMsgs) :
            NullContent(InMsgs[i]) =>
                OutMsgs[i]["content"] =
                    IF InMsgs[i]["role"] = "tool"
                    THEN Str(<<"n", "u", "l", "l">>) ELSE Str(<<>>)

C4_Witness ==
    /\ Translated
    /\ Len(InMsgs) = 2
    /\ NullContent(InMsgs[1]) /\ InMsgs[1]["role"] = "tool"
    /\ NullContent(InMsgs[2]) /\ InMsgs[2]["role"] = "assistant"
    /\ OutMsgs[2]["content"] = Str(<<>>)

PositiveTemperature(d) ==
    "temperature" \in DOMAIN d /\ d["temperature"] # None /\ d["temperature"][1] > 0

\* C5 as stated: the backend request never carries both a temperature key
\* and a top_p key, even when the caller supplied both.
C5_NeverBoth ==
    Translated => ~({"temperature", "top_p"} \subseteq DOMAIN chat.data)

\* C5 amended: the backend request carries both keys exactly when the caller
\* supplied top_p together with a positive temperature; temperature 0 yields
\* top_p = 0 and no temperature key; an absent temperature adds neither key.
C5_TemperaturePolicy ==
    Translated =>
        /\ {"temperature", "top_p"} \subseteq DOMAIN chat.data
               <=> (PositiveTemperature(data) /\ "top_p" \in DOMAIN data)
        /\ Get(data, "temperature", None) = Some(0) =>
               /\ "temperature" \notin DOMAIN chat.data
               /\ Get(chat.data, "top_p", None) = Some(0)
        /\ "temperature" \notin DOMAIN data =>
               /\ "temperature" \notin DOMAIN chat.data
               /\ "top_p" \in DOMAIN chat.data <=> "top_p" \in DOMAIN data
               /\ "top_p" \in DOMAIN data => chat.data["top_p"] = data["top_p"]

C5_Witness ==
    /\ Translated
    /\ Get(data, "temperature", None) = Some(0)
    /\ Get(data, "top_p", None) = Some(1)
    /\ chat.data["top_p"] = Some(0)

\* C6: the backend request has as many messages as the inbound request, in
\* the same order; a system message at index > 0 becomes a user message, a
\* system message at index 0 stays system, and no message at index > 0 has
\* role system.
C6_SystemDemoted ==
    Translated =>
        /\ Len(OutMsgs) = Len(InMsgs)
        /\ \A i \in 1..Len(InMsgs) :
            /\ i > 1 => OutMsgs[i]["role"] # "system"
            /\ i > 1 /\ InMsgs[i]["role"] = "system" => OutMsgs[i]["role"] = "user"
            /\ i = 1 /\ InMsgs[i]["role"] = "system" => OutMsgs[i]["role"] = "system"
            /\ InMsgs[i]["role"] \in {"user", "assistant"} =>
                   OutMsgs[i]["role"] = InMsgs[i]["role"]
            /\ InMsgs[i]["role"] # "tool" /\ InMsgs[i]["content"].t = "str" =>
                   OutMsgs[i]["content"] = InMsgs[i]["content"]

C6_Witness ==
    /\ Translated
    /\ Len(InMsgs) = 2
    /\ InMsgs[1]["role"] = "system" /\ InMsgs[2]["role"] = "system"
    /\ OutMsgs[1]["role"] = "system" /\ OutMsgs[2]["role"] = "user"

SuppliesTools(d) == "tools" \in DOMAIN d /\ d["tools"] # None
FunctionPayloads(tools) ==
    LET fs == SelectSeq(tools, LAMBDA tool : tool["type"] = "function")
    IN  [j \in 1..Len(fs) |-> fs[j]["function"]]

\* C7 as stated: whenever the caller supplies tools and no functions key, the
\* backend request's functions is the sequence of the function payloads of
\* the tools of type "function", in order; a supplied functions is unchanged.
C7_FunctionsFromTools ==
    Translated =>
        /\ SuppliesTools(data) /\ "functions" \notin DOMAIN data =>
               /\ "functions" \in DOMAIN chat.data
               /\ chat.data["functions"] = Some(FunctionPayloads(data["tools"][1]))
        /\ "functions" \in DOMAIN data =>
               /\ "functions" \in DOMAIN chat.data
               /\ chat.data["functions"] = data["functions"]

\* C7 amended: the derivation happens when the supplied tools list is
\* non-empty; with an empty (or null) tools and no functions key the backend
\* request has no functions key at all; a supplied functions is unchanged.
C7_FunctionsFromNonEmptyTools ==
    Translated =>
        /\ SuppliesTools(data) /\ data["tools"][1] # <<>> /\ "functions" \notin DOMAIN data =>
               /\ "functions" \in DOMAIN chat.data
               /\ chat.data["functions"] = Some(FunctionPayloads(data["tools"][1]))
        /\ (~SuppliesTools(data) \/ data["tools"][1] = <<>>) /\ "functions" \notin DOMAIN data =>
               "functions" \notin DOMAIN chat.data
        /\ "functions" \in DOMAIN data =>
               /\ "functions" \in DOMAIN chat.data
               /\ chat.data["functions"] = data["functions"]

C7_Witness ==
    /\ Translated
    /\ "functions" \notin DOMAIN data
    /\ SuppliesTools(data)
    /\ Len(data["tools"][1]) = 2
    /\ data["tools"][1][1]["type"] = "retrieval"
    /\ data["tools"][1][2]["type"] = "function"
    /\ chat.data["functions"] = Some(<<data["tools"][1][2]["function"]>>)

\* json.dumps of each content the callers send, written out
ExpectedEncoding(m) ==
    IF "content" \notin DOMAIN m THEN <<"\"", "\"">>
    ELSE CASE m["content"] = Null -> <<"n", "u", "l", "l">>
           [] m["content"] = Str(<<>>) -> <<"\"", "\"">>
           [] m["content"] = Str(<<"a", "\"">>) -> <<"\"", "a", "\\", "\"", "\"">>
           [] m["content"] = List(<<<<"a">>>>) -> <<"[", "\"", "a", "\"", "]">>

\* C8: every inbound tool message, at any index, is sent with role function
\* and with content the JSON-string encoding of its original content.
C8_ToolBecomesFunction ==
    Translated =>
        \A i \in 1..Len(InMsgs) :
            InMsgs[i]["role"] = "tool" =>
                /\ OutMsgs[i]["role"] = "function"
                /\ OutMsgs[i]["content"] = Str(ExpectedEncoding(InMsgs[i]))

C8_Witness ==
    /\ Translated
    /\ Len(InMsgs) = 2
    /\ InMsgs[1]["role"] = "tool" /\ InMsgs[2]["role"] = "tool"
    /\ "content" \in DOMAIN InMsgs[1] /\ InMsgs[1]["content"] = Str(<<"a", "\"">>)
    /\ "content" \in DOMAIN InMsgs[2] /\ InMsgs[2]["content"] = List(<<<<"a">>>>)
    /\ OutMsgs[2]["role"] = "function"

(***************************************************************************)
(* Properties of process_gigachat_response (checked under SpecResponse).   *)
(***************************************************************************)
Processed == tpc = "processed" /\ result.ok
InChoices == giga_resp.choices
OutChoices == result.value["choices"][1]
InMessage(i) == InChoices[i]["message"][1]
OutMessage(i) == OutChoices[i]["message"][1]
CarriesFunctionCall(m) == m["role"] = Some("assistant") /\ m["function_call"] # None

\* C10: an assistant message with a function_call is returned with
\* function_call = {name, arguments}, arguments a JSON string, a content that
\* is never "" (null instead) and no functions_state_id; every choice has
\* index 0 and has logprobs and message.refusal present and null.
C10_ResponseShape ==
    Processed =>
        /\ Len(OutChoices) = Len(InChoices)
        /\ \A i \in 1..Len(OutChoices) :
            /\ Get(OutChoices[i], "index", None) = Some(0)
            /\ "logprobs" \in DOMAIN OutChoices[i] /\ OutChoices[i]["logprobs"] = None
            /\ "refusal" \in DOMAIN OutMessage(i) /\ OutMessage(i)["refusal"] = None
            /\ CarriesFunctionCall(InMessage(i)) =>
                /\ DOMAIN OutMessage(i)["function_call"][1] = {"name", "arguments"}
                /\ OutMessage(i)["function_call"][1]["name"] = Some("f1")
                /\ OutMessage(i)["function_call"][1]["arguments"] =
                       Some(Str(<<"{", "\"", "k", "\"", ":", " ",
                                  "\"", "v", "\\", "\"", "\"", "}">>))
                /\ "content" \in DOMAIN OutMessage(i)
                /\ OutMessage(i)["content"] # Some(Str(<<>>))
                /\ InMessage(i)["content"] = Some(Str(<<>>)) =>
                       OutMessage(i)["content"] = None
                /\ "functions_state_id" \notin DOMAIN OutMessage(i)

C10_Witness ==
    /\ Processed
    /\ Len(InChoices) = 2
    /\ CarriesFunctionCall(InMessage(2))
    /\ InMessage(2)["content"] = Some(Str(<<>>))
    /\ InMessage(2)["functions_state_id"] = Some("sid")
    /\ InChoices[2]["index"] = Some(1)
    /\ OutMessage(2)["content"] = None

(***************************************************************************)
(* The listener and the connection handlers.                               *)
(*                                                                         *)
(* wire[c] lists what the handler of connection c has put on the socket:   *)
(*   "200"    status line and headers of a 200 response, flushed by        *)
(*            end_headers                                                  *)
(*   "json"   the serialized chat.completion body                          *)
(*   "chunk"  the frame  data: <chat.completion.chunk>                     *)
(*   "DONE"   the frame  data: [DONE]                                      *)
(*   "blank"  the trailing empty lines                                     *)
(*   "models" the content of models.json                                   *)
(*   "404", "500"  a complete send_error response                          *)
(***************************************************************************)
ChatPath == "/v1/chat/completions"
ModelsPaths == {"/models", "/v1/models"}

Choice(m, i, fr) ==
    ("message" :> Some(m)) @@ ("index" :> Some(i)) @@ ("finish_reason" :> fr)

TextMessage ==
    ("role" :> Some("assistant")) @@ ("content" :> Some(Str(<<"o", "k">>)))
    @@ ("function_call" :> None) @@ ("functions_state_id" :> None)

CallMessage(arguments) ==
    ("role" :> Some("assistant")) @@ ("content" :> Some(Str(<<>>)))
    @@ ("function_call" :> Some(("name" :> Some("f1")) @@ ("arguments" :> arguments)))
    @@ ("functions_state_id" :> Some("sid"))

CallArguments == Some(Dict(<<<<"k">>, <<"v", "\"">>>>))

\* what giga.chat can do: raise, or return a ChatCompletion
HandlerOutcomes ==
    {None,
     Some([choices |-> <<>>]),
     Some([choices |-> <<Choice(TextMessage, 0, Some("stop"))>>]),
     Some([choices |-> <<Choice(TextMessage, 0, None)>>]),
     Some([choices |-> <<Choice(CallMessage(None), 0, Some("function_call"))>>]),
     Some([choices |-> <<Choice(CallMessage(CallArguments), 0, Some("function_call")),
                         Choice(TextMessage, 1, Some("stop"))>>])}

\* request bodies: None is a body json.loads rejects
HandlerBodies ==
    {None,
     Some(("model" :> Some("gpt-x"))),
     Some(("model" :> Some("gpt-x")) @@ ("messages" :> Some(<<UserHi>>))),
     Some(("model" :> Some("gpt-x")) @@ ("stream" :> Some(TRUE))
          @@ ("temperature" :> Some(0))
          @@ ("messages" :> Some(<<SystemNull, ToolResult>>)))}

HandlerRequests ==
    {[method |-> "OPTIONS", path |-> ChatPath, body |-> None]}
    \cup {[method |-> "GET", path |-> p, body |-> None] : p \in ModelsPaths}
    \cup {[method |-> "POST", path |-> ChatPath, body |-> b] : b \in HandlerBodies}
    \cup {[method |-> "GET", path |-> ChatPath, body |-> b] :
              b \in {x \in HandlerBodies : x # None /\ "stream" \in DOMAIN x[1]}}
    \cup {[method |-> "POST", path |-> "/models", body |-> b] : b \in {None}}

IsChat(r) == r.method = "POST" \/ (r.method = "GET" /\ r.path \notin ModelsPaths)

Init == TranslatorIdle /\ HandlerIdle

\* run_proxy_server, lines 286-295
RunProxyServer ==
    /\ ~serving
    /\ \E verbose \in BOOLEAN : config' = [verbose |-> verbose, giga |-> Some("giga")]
    /\ serving' = TRUE
    /\ UNCHANGED <<tvars, cvars>>

\* the listener hands a connection to a new handler; ProxyHandler.__init__
Accept(c) ==
    /\ serving
    /\ pc[c] = "idle"
    /\ \E r \in HandlerRequests : req' = [req EXCEPT ![c] = r]
    /\ inst' = [inst EXCEPT ![c] = [verbose |-> config.verbose, giga |-> config.giga]]
    /\ pc' = [pc EXCEPT ![c] = "handle"]
    /\ UNCHANGED <<tvars, serving, config, json_body, stream, model, backend,
                   resp, failed, calls, wire, sent>>

\* do_OPTIONS
DoOptions(c) ==
    /\ pc[c] = "handle"
    /\ req[c].method = "OPTIONS"
    /\ wire' = [wire EXCEPT ![c] = @ \o <<"200">>]
    /\ pc' = [pc EXCEPT ![c] = "done"]
    /\ UNCHANGED <<tvars, serving, config, req, inst, json_body, stream, model,
                   backend, resp, failed, calls, sent>>

\* do_GET on a models path: handle_models_request
HandleModelsRequest(c) ==
    /\ pc[c] = "handle"
    /\ req[c].method = "GET" /\ req[c].path \in ModelsPaths
    /\ \E file \in {"ok", "missing", "unreadable"} :
          wire' = [wire EXCEPT ![c] =
                       @ \o (CASE file = "ok" -> <<"200", "models">>
                               [] file = "missing" -> <<"404">>
                               [] file = "unreadable" -> <<"500">>)]
    /\ pc' = [pc EXCEPT ![c] = "done"]
    /\ UNCHANGED <<tvars, serving, config, req, inst, json_body, stream, model,
                   backend, resp, failed, calls, sent>>

\* the except clause of handle_proxy_request, lines 248-250
SendError(c, step) ==
    /\ failed' = [failed EXCEPT ![c] = step]
    /\ wire' = [wire EXCEPT ![c] = @ \o <<"500">>]
    /\ pc' = [pc EXCEPT ![c] = "done"]

\* Decode without the try/except: the exception leaves the handler and stops
\* the listener
Decode_Uncaught(c) ==
    /\ pc[c] = "handle"
    /\ IsChat(req[c])
    /\ IF req[c].body = None
       THEN /\ serving' = FALSE
            /\ failed' = [failed EXCEPT ![c] = "decode"]
            /\ pc' = [pc EXCEPT ![c] = "done"]
            /\ UNCHANGED <<json_body, stream, wire>>
       ELSE /\ json_body' = [json_body EXCEPT ![c] = Pop(req[c].body[1], "stream")]
            /\ stream' = [stream EXCEPT ![c] =
                              Get(req[c].body[1], "stream", Some(FALSE)) = Some(TRUE)]
            /\ pc' = [pc EXCEPT ![c] = "translate"]
            /\ UNCHANGED <<failed, wire, serving>>
    /\ UNCHANGED <<tvars, config, req, inst, model, backend, resp, calls, sent>>

\* handle_proxy_request, lines 185-189
Decode(c) ==
    /\ pc[c] = "handle"
    /\ IsChat(req[c])
    /\ IF req[c].body = None
       THEN /\ SendError(c, "decode")
            /\ UNCHANGED <<json_body, stream>>
       ELSE /\ json_body' = [json_body EXCEPT ![c] = Pop(req[c].body[1], "stream")]
            /\ stream' = [stream EXCEPT ![c] =
                              Get(req[c].body[1], "stream", Some(FALSE)) = Some(TRUE)]
            /\ pc' = [pc EXCEPT ![c] = "translate"]
            /\ UNCHANGED <<failed, wire>>
    /\ UNCHANGED <<tvars, serving, config, req, inst, model, backend, resp,
                   calls, sent>>

\* send_to_gigachat, line 143; Chat.parse_obj may reject the translated dict
Transform(c) ==
    /\ pc[c] = "translate"
    /\ \E valid \in BOOLEAN :
          LET t == transform_input_data(json_body[c])
          IN  IF t.ok /\ valid
              THEN /\ json_body' = [json_body EXCEPT ![c] = t.data]
                   /\ model' = [model EXCEPT ![c] = t.gpt_model]
                   /\ pc' = [pc EXCEPT ![c] = "call"]
                   /\ UNCHANGED <<failed, wire>>
              ELSE /\ SendError(c, "translate")
                   /\ UNCHANGED <<json_body, model>>
    /\ UNCHANGED <<tvars, serving, config, req, inst, stream, backend, resp,
                   calls, sent>>

\* CallBackend calling giga.chat a second time after a first failure
CallBackend_Retry(c) ==
    /\ pc[c] = "call"
    /\ calls' = [calls EXCEPT ![c] = @ + 1]
    /\ \E outcome \in HandlerOutcomes :
          /\ backend' = [backend EXCEPT ![c] = outcome]
          /\ IF outcome = None /\ calls[c] = 0
             THEN UNCHANGED <<pc, failed, wire>>
             ELSE IF outcome = None
                  THEN SendError(c, "backend")
                  ELSE /\ pc' = [pc EXCEPT ![c] = "process"]
                       /\ UNCHANGED <<failed, wire>>
    /\ UNCHANGED <<tvars, serving, config, req, inst, json_body, stream, model,
                   resp, sent>>

\* send_to_gigachat, line 144: giga.chat(chat)
CallBackend(c) ==
    /\ pc[c] = "call"
    /\ calls' = [calls EXCEPT ![c] = @ + 1]
    /\ \E outcome \in HandlerOutcomes :
          /\ backend' = [backend EXCEPT ![c] = outcome]
          /\ IF outcome = None
             THEN SendError(c, "backend")
             ELSE /\ pc' = [pc EXCEPT ![c] = "process"]
                  /\ UNCHANGED <<failed, wire>>
    /\ UNCHANGED <<tvars, serving, config, req, inst, json_body, stream, model,
                   resp, sent>>

\* send_to_gigachat, line 145
Process(c) ==
    /\ pc[c] = "process"
    /\ LET r == process_gigachat_response(backend[c][1], model[c])
       IN  IF r.ok
           THEN /\ resp' = [resp EXCEPT ![c] = r.value]
                /\ pc' = [pc EXCEPT ![c] = "respond"]
                /\ UNCHANGED <<failed, wire>>
           ELSE /\ SendError(c, "process")
                /\ UNCHANGED resp
    /\ UNCHANGED <<tvars, serving, config, req, inst, json_body, stream, model,
                   backend, calls, sent>>

\* handle_proxy_request, lines 197-210 (stream) and 197-205, 232-247 (not stream)
Respond(c) ==
    /\ pc[c] = "respond"
    /\ IF stream[c]
       THEN /\ wire' = [wire EXCEPT ![c] = @ \o <<"200">>]
            /\ pc' = [pc EXCEPT ![c] = "chunk"]
       ELSE /\ wire' = [wire EXCEPT ![c] = @ \o <<"200", "json">>]
            /\ pc' = [pc EXCEPT ![c] = "done"]
    /\ UNCHANGED <<tvars, serving, config, req, inst, json_body, stream, model,
                   backend, resp, failed, calls, sent>>

ChunkFailure == [ok |-> FALSE, value |-> EmptyDict]

\* BuildChunk taking the last choice instead of choices[0]
BuildChunk_LastChoice(r) ==
    LET choices == r["choices"][1]
        n == Len(choices)
    IN  IF choices = <<>> THEN ChunkFailure
        ELSE IF {"message", "finish_reason"} \ DOMAIN choices[n] # {} THEN ChunkFailure
        ELSE [ok |-> TRUE,
              value |-> ("id" :> r["id"])
                        @@ ("object" :> Some("chat.completion.chunk"))
                        @@ ("created" :> r["created"])
                        @@ ("model" :> r["model"])
                        @@ ("system_fingerprint" :> Get(r, "system_fingerprint", Some("")))
                        @@ ("choices" :> Some(<<("index" :> Some(0))
                                                @@ ("delta" :> choices[n]["message"])
                                                @@ ("logprobs" :> None)
                                                @@ ("finish_reason" :>
                                                        choices[n]["finish_reason"])>>))]

\* the to_send literal, lines 212-226
BuildChunk(r) ==
    LET choices == r["choices"][1]
    IN  IF choices = <<>> THEN ChunkFailure
        ELSE IF {"message", "finish_reason"} \ DOMAIN choices[1] # {} THEN ChunkFailure
        ELSE [ok |-> TRUE,
              value |-> ("id" :> r["id"])
                        @@ ("object" :> Some("chat.completion.chunk"))
                        @@ ("created" :> r["created"])
                        @@ ("model" :> r["model"])
                        @@ ("system_fingerprint" :> Get(r, "system_fingerprint", Some("")))
                        @@ ("choices" :> Some(<<("index" :> Some(0))
                                                @@ ("delta" :> choices[1]["message"])
                                                @@ ("logprobs" :> None)
                                                @@ ("finish_reason" :>
                                                        choices[1]["finish_reason"])>>))]

\* handle_proxy_request, lines 212-230
StreamChunk(c) ==
    /\ pc[c] = "chunk"
    /\ LET to_send == BuildChunk(resp[c])
       IN  IF to_send.ok
           THEN /\ sent' = [sent EXCEPT ![c] = Some(to_send.value)]
                /\ wire' = [wire EXCEPT ![c] = @ \o <<"chunk", "DONE", "blank">>]
                /\ pc' = [pc EXCEPT ![c] = "done"]
                /\ UNCHANGED failed
           ELSE /\ SendError(c, "chunk")
                /\ UNCHANGED sent
    /\ UNCHANGED <<tvars, serving, config, req, inst, json_body, stream, model,
                   backend, resp, calls>>

Next ==
    \/ RunProxyServer
    \/ \E c \in Conns : Accept(c)
    \/ \E c \in Conns : DoOptions(c)
    \/ \E c \in Conns : HandleModelsRequest(c)
    \/ \E c \in Conns : Decode(c)
    \/ \E c \in Conns : Transform(c)
    \/ \E c \in Conns : CallBackend(c)
    \/ \E c \in Conns : Process(c)
    \/ \E c \in Conns : Respond(c)
    \/ \E c \in Conns : StreamChunk(c)

Spec == Init /\ [][Next]_vars

(***************************************************************************)
(* Properties of the handlers (checked under Spec).                        *)
(***************************************************************************)
DataFrames(w) == SelectSeq(w, LAMBDA x : x \in {"chunk", "DONE"})

\* C1: a failure at any step of handle_proxy_request yields exactly one HTTP
\* response, with status 500, and nothing of a 200 response was written
\* before it.
C1_FailureYieldsSingle500 ==
    \A c \in Conns : failed[c] # "" => wire[c] = <<"500">>

BackendSucceeded(c) == calls[c] = 1 /\ backend[c] # None

C3_SingleBackendCall ==
    \A c \in Conns :
        /\ calls[c] <= 1
        /\ calls[c] = 1 <=> /\ pc[c] \in {"process", "respond", "chunk", "done"}
                            /\ IsChat(req[c])
                            /\ failed[c] \notin {"decode", "translate"}
        /\ ~IsChat(req[c]) => calls[c] = 0
        /\ failed[c] = "backend" =>
               /\ calls[c] = 1
               /\ wire[c] = <<"500">>
               /\ resp[c] = EmptyDict /\ sent[c] = None

C3_Witness ==
    \E c \in Conns :
        /\ pc[c] = "done" /\ failed[c] = "backend"
        /\ calls[c] = 1 /\ wire[c] = <<"500">>

Changed(c) ==
    \/ pc'[c] # pc[c] \/ req'[c] # req[c] \/ inst'[c] # inst[c]
    \/ stream'[c] # stream[c] \/ failed'[c] # failed[c] \/ calls'[c] # calls[c]
    \/ wire'[c] # wire[c] \/ json_body'[c] # json_body[c]
    \/ model'[c] # model[c] \/ backend'[c] # backend[c]
    \/ resp'[c] # resp[c] \/ sent'[c] # sent[c]

\* C9: once the listener serves it keeps serving whatever happens in a
\* handler, the shared configuration is never written again, and a step of
\* one handler (a failure included) changes nothing of any other connection.
C9_HandlersIsolated ==
    [][serving =>
          /\ serving'
          /\ config' = config
          /\ \A c \in Conns : inst[c].giga # None => inst[c] = config
          /\ \A c \in Conns : Changed(c) => \A d \in Conns \ {c} : ~Changed(d)]_vars

C9_Witness ==
    \E c \in Conns : \E d \in Conns \ {c} :
        /\ serving
        /\ pc[c] = "done" /\ failed[c] = "backend" /\ wire[c] = <<"500">>
        /\ pc[d] = "done" /\ failed[d] = "" /\ wire[d] = <<"200", "json">>

====
